---- MODULE Spec2Model ----
(***************************************************************************)
(* Model of src/app.py, the Streamlit "Radiology Analyzer" page.           *)
(*                                                                         *)
(* One Streamlit session is modelled.  A script run is main() executed    *)
(* top to bottom; pc is the position of the run.  A run ends by reaching  *)
(* the end of main() ("done"), by st.stop() ("stopped"), or by an         *)
(* exception nobody catches ("crashed"); st.rerun() abandons the run and  *)
(* starts a new one.  screen holds the elements the current run has       *)
(* emitted: when a run has ended it is exactly what the page shows,       *)
(* because Streamlit drops every element of earlier runs that the last    *)
(* run did not emit again.  The user acts only between runs (the script   *)
(* is synchronous), and a button is True only in the run its press starts.*)
(***************************************************************************)
EXTENDS Naturals, Sequences, FiniteSets

VARIABLES
    api_key,          \* environment: GROQ_API_KEY as os.getenv sees it
    logo_file,        \* environment: state of src/radiology.png
    analysis_result,  \* st.session_state['analysis_result']
    uploaded_file,    \* value of the st.file_uploader widget
    pc,               \* position of the script run
    pressed,          \* the button whose press started this run
    origin,           \* what started this run, and the analysis outcome it carries
    client,           \* main(): groq_client has been created in this run
    logo_b64,         \* display_main_interface(): logo_b64
    screen,           \* elements emitted by this run
    shown_text,       \* the text inside the report panel of this run
    pdf_input,        \* the argument of generate_pdf_report in this run
    pdf_body,         \* the body paragraph of the PDF built in this run
    img_format,       \* generate_radiology_report(): img_format
    report,           \* render_sidebar(): report
    calls,            \* chat-completion calls made in this run
    sent_format,      \* image format in the data URL of the call of this run
    error             \* the uncaught exception that ended this run

vars == <<api_key, logo_file, analysis_result, uploaded_file, pc, pressed, origin,
          client, logo_b64, screen, shown_text, pdf_input, pdf_body, img_format,
          report, calls, sent_format, error>>

----------------------------------------------------------------------------
(* Bounds and value sets *)

MaxLen == 2

\* A report text is a sequence of lexical pieces: a plain character, a
\* newline, and the markup a model answer can contain.
Pieces == {"a", "\n", "<b>", "</b>", "&amp;"}

Texts == UNION {[1..n -> Pieces] : n \in 0..MaxLen}

\* Values of session_state.get('analysis_result') / of report.
Missing == [kind |-> "missing", text |-> <<>>]
None == [kind |-> "none", text |-> <<>>]
Text(t) == [kind |-> "text", text |-> t]
Values == {Missing, None} \cup {Text(t) : t \in Texts}

ALLOWED_FILE_TYPES == {"png", "jpg", "jpeg"}

Extensions == ALLOWED_FILE_TYPES \cup {"gif", "pdf"}

\* What the bytes of a file are, whatever its name says.
Contents == {"PNG", "JPEG", "GIF", "PSD", "corrupt"}

NoFile == [ext |-> "", content |-> ""]
Files == [ext : Extensions, content : Contents]

Lower(fmt) ==
    CASE fmt = "PNG" -> "png"
      [] fmt = "JPEG" -> "jpeg"
      [] fmt = "GIF" -> "gif"
      [] fmt = "PSD" -> "psd"
      [] OTHER -> ""

NoBody == [ok |-> TRUE, body |-> <<>>]

\* A run the user started, and the run st.rerun() starts after an analysis
\* (why: "ok", "api_error" or "image_error") or after Clear Analysis.
ByUser == [kind |-> "user", why |-> "", outcome |-> Missing]
AfterAnalysis(w, v) == [kind |-> "analysis", why |-> w, outcome |-> v]
AfterClear == [kind |-> "clear", why |-> "", outcome |-> Missing]

Ended == {"done", "stopped", "crashed"}

----------------------------------------------------------------------------
(* Pure functions *)

\* Python truthiness of session_state.get('analysis_result'): a missing key
\* gives None, and None and '' are falsy.
Truthy(v) == v.kind = "text" /\ v.text # <<>>

\* The test guarding the download button.
DownloadOffered(v) == Truthy(v)

ReportDisplayedIfNotNone(v) == v.kind = "text"

\* The test guarding the report panel.
ReportDisplayed(v) == Truthy(v)

\* report_text.replace('\n', '<br/>')
ReplaceNewlines(t) == [i \in 1..Len(t) |-> IF t[i] = "\n" THEN "<br/>" ELSE t[i]]

\* reportlab's Paragraph reads its text as XML-like markup: <b> and </b> switch
\* bold and leave no glyph, <br/> is a line break, &amp; is the character &, and
\* a tag that is closed but not open, or open at the end, is a ValueError.
RECURSIVE ParaParse(_, _, _)
ParaParse(m, depth, out) ==
    IF m = <<>> THEN [ok |-> depth = 0, body |-> IF depth = 0 THEN out ELSE <<>>]
    ELSE LET h == Head(m)
             r == Tail(m)
         IN CASE h = "<b>" -> ParaParse(r, depth + 1, out)
              [] h = "</b>" -> IF depth = 0 THEN [ok |-> FALSE, body |-> <<>>]
                               ELSE ParaParse(r, depth - 1, out)
              [] h = "<br/>" -> ParaParse(r, depth, Append(out, "\n"))
              [] h = "&amp;" -> ParaParse(r, depth, Append(out, "&"))
              [] OTHER -> ParaParse(r, depth, Append(out, h))

\* The body paragraph of the document, or the failure of building it.
generate_pdf_report(report_text) == ParaParse(ReplaceNewlines(report_text), 0, <<>>)

KeyMissingOnlyWhenUnset(k) == k = "absent"

\* `not api_key`
KeyMissing(k) == k \in {"absent", "empty"}

EncodeLogoCatchesNothing(f) ==
    CASE f = "present" -> "encoded"
      [] OTHER -> "raise"

\* encode_logo: FileNotFoundError is the one exception it catches.
encode_logo(f) ==
    CASE f = "present" -> "encoded"
      [] f = "missing" -> "placeholder"
      [] OTHER -> "raise"

\* Image.open(uploaded_file) identifies the format from the bytes.
Opens(f) == f.content # "corrupt"

\* image.save(buffer, format=image.format): PIL reads PSD but cannot write it.
Saves(f) == f.content \in {"PNG", "JPEG", "GIF"}

\* process_image_data: (base64_image, img_format), (None, None) as "".
process_image_data(f) == IF Opens(f) /\ Saves(f) THEN f.content ELSE ""

\* `if not base64_image: return None`
EncodingFailed(fmt) == fmt = ""

StoredResultKeepsOldOnFailure(old, new) == IF new.kind = "none" THEN old ELSE new

\* st.session_state.analysis_result = report
StoredResult(old, new) == new

\* The uploader's `type=` filter looks at the extension of the file name.
Accepted(f) == f.ext \in ALLOWED_FILE_TYPES

AnalysisOnEveryRender(p) == TRUE

\* `if st.button("Initiate Analysis")`
AnalysisRequested(p) == p = "analyze"

----------------------------------------------------------------------------
(* The script run *)

Init ==
    /\ api_key \in {"absent", "empty", "set"}
    /\ logo_file \in {"present", "missing", "unreadable"}
    /\ analysis_result = Missing
    /\ uploaded_file = NoFile
    /\ pc = "configure"
    /\ pressed = "none"
    /\ origin = ByUser
    /\ client = FALSE
    /\ logo_b64 = "unset"
    /\ screen = {}
    /\ shown_text = Missing
    /\ pdf_input = Missing
    /\ pdf_body = NoBody
    /\ img_format = ""
    /\ report = None
    /\ calls = 0
    /\ sent_format = ""
    /\ error = ""

\* A new script run: every local of main() is fresh and nothing is on the page.
RunStart(p, o) ==
    /\ pc' = "configure"
    /\ pressed' = p
    /\ origin' = o
    /\ client' = FALSE
    /\ logo_b64' = "unset"
    /\ screen' = {}
    /\ shown_text' = Missing
    /\ pdf_input' = Missing
    /\ pdf_body' = NoBody
    /\ img_format' = ""
    /\ report' = None
    /\ calls' = 0
    /\ sent_format' = ""
    /\ error' = ""

\* An exception reaches Streamlit, which shows it and ends the run.
Crash(e) ==
    /\ pc' = "crashed"
    /\ error' = e
    /\ screen' = screen \cup {"exception"}

Env == <<api_key, logo_file>>
Session == <<analysis_result, uploaded_file>>
Locals == <<client, logo_b64, shown_text, pdf_input, pdf_body, img_format, report,
            calls, sent_format>>

configure_application ==
    /\ pc = "configure"
    /\ pc' = "init_client"
    /\ UNCHANGED <<Env, Session, Locals, pressed, origin, screen, error>>

initialize_api_client ==
    /\ pc = "init_client"
    /\ IF KeyMissing(api_key)
       THEN /\ screen' = screen \cup {"key_error"}
            /\ pc' = "stopped"
            /\ UNCHANGED client
       ELSE /\ client' = TRUE
            /\ pc' = "logo"
            /\ UNCHANGED screen
    /\ UNCHANGED <<Env, Session, pressed, origin, logo_b64, shown_text, pdf_input,
                   pdf_body, img_format, report, calls, sent_format, error>>

\* display_main_interface, the logo.
EncodeLogo ==
    /\ pc = "logo"
    /\ LET r == encode_logo(logo_file)
       IN IF r = "raise"
          THEN Crash("PermissionError") /\ UNCHANGED logo_b64
          ELSE /\ logo_b64' = IF r = "encoded" THEN "encoded" ELSE ""
               /\ screen' = IF r = "encoded" THEN screen ELSE screen \cup {"logo_error"}
               /\ pc' = "title"
               /\ UNCHANGED error
    /\ UNCHANGED <<Env, Session, pressed, origin, client, shown_text, pdf_input,
                   pdf_body, img_format, report, calls, sent_format>>

\* display_main_interface, logo block and title.
RenderTitle ==
    /\ pc = "title"
    /\ screen' = screen \cup {"title"}
    /\ pc' = "download"
    /\ UNCHANGED <<Env, Session, Locals, pressed, origin, error>>

\* display_main_interface, col1.
RenderDownload ==
    /\ pc = "download"
    /\ IF DownloadOffered(analysis_result)
       THEN LET b == generate_pdf_report(analysis_result.text)
            IN /\ pdf_input' = analysis_result
               /\ pdf_body' = b
               /\ IF b.ok
                  THEN /\ screen' = screen \cup {"download"}
                       /\ pc' = "clear"
                       /\ UNCHANGED error
                  ELSE Crash("ValueError")
       ELSE /\ pc' = "clear"
            /\ UNCHANGED <<pdf_input, pdf_body, screen, error>>
    /\ UNCHANGED <<Env, Session, pressed, origin, client, logo_b64, shown_text,
                   img_format, report, calls, sent_format>>

\* display_main_interface, col2.
RenderClear ==
    /\ pc = "clear"
    /\ IF pressed = "clear"
       THEN IF analysis_result = Missing
            THEN /\ pc' = "crashed"
                 /\ error' = "KeyError"
                 /\ screen' = screen \cup {"clear_button", "exception"}
                 /\ UNCHANGED <<Session, Locals, pressed, origin>>
            ELSE /\ analysis_result' = Missing
                 /\ RunStart("none", AfterClear)
                 /\ UNCHANGED uploaded_file
       ELSE /\ screen' = screen \cup {"clear_button"}
            /\ pc' = "report"
            /\ UNCHANGED <<Session, Locals, pressed, origin, error>>
    /\ UNCHANGED Env

\* display_main_interface, the report panel.
RenderReport ==
    /\ pc = "report"
    /\ IF ReportDisplayed(analysis_result)
       THEN /\ screen' = screen \cup {"report"}
            /\ shown_text' = analysis_result
       ELSE UNCHANGED <<screen, shown_text>>
    /\ pc' = "sidebar"
    /\ UNCHANGED <<Env, Session, pressed, origin, client, logo_b64, pdf_input,
                   pdf_body, img_format, report, calls, sent_format, error>>

\* render_sidebar up to the uploader.
RenderSidebar ==
    /\ pc = "sidebar"
    /\ screen' = screen \cup {"sidebar", "uploader"}
    /\ pc' = IF uploaded_file = NoFile THEN "done" ELSE "preview"
    /\ UNCHANGED <<Env, Session, Locals, pressed, origin, error>>

\* render_sidebar, st.image(Image.open(uploaded_file)).
RenderPreview ==
    /\ pc = "preview"
    /\ IF Opens(uploaded_file)
       THEN /\ screen' = screen \cup {"preview"}
            /\ pc' = "analyze_button"
            /\ UNCHANGED error
       ELSE Crash("UnidentifiedImageError")
    /\ UNCHANGED <<Env, Session, Locals, pressed, origin>>

\* render_sidebar, the Initiate Analysis button.
RenderAnalyzeButton ==
    /\ pc = "analyze_button"
    /\ screen' = screen \cup {"analyze_button"}
    /\ pc' = IF AnalysisRequested(pressed) THEN "process_image" ELSE "done"
    /\ UNCHANGED <<Env, Session, Locals, pressed, origin, error>>

\* generate_radiology_report, the encoding and its guard.
ProcessImageData ==
    /\ pc = "process_image"
    /\ img_format' = process_image_data(uploaded_file)
    /\ IF EncodingFailed(img_format')
       THEN /\ screen' = screen \cup {"image_error"}
            /\ pc' = "store"
       ELSE /\ pc' = "api_call"
            /\ UNCHANGED screen
    /\ report' = None
    /\ UNCHANGED <<Env, Session, pressed, origin, client, logo_b64, shown_text,
                   pdf_input, pdf_body, calls, sent_format, error>>

\* generate_radiology_report, the call: the service answers with a text or
\* the call raises.
ApiCall ==
    /\ pc = "api_call"
    /\ calls' = calls + 1
    /\ sent_format' = Lower(img_format)
    /\ \/ /\ screen' = screen \cup {"api_error"}
          /\ report' = None
       \/ /\ \E t \in Texts : report' = Text(t)
          /\ UNCHANGED screen
    /\ pc' = "store"
    /\ UNCHANGED <<Env, Session, pressed, origin, client, logo_b64, shown_text,
                   pdf_input, pdf_body, img_format, error>>

\* render_sidebar, the store and st.rerun().
StoreAndRerun ==
    /\ pc = "store"
    /\ analysis_result' = StoredResult(analysis_result, report)
    /\ RunStart("none",
                AfterAnalysis(IF "api_error" \in screen THEN "api_error"
                              ELSE IF "image_error" \in screen THEN "image_error"
                              ELSE "ok", report))
    /\ UNCHANGED <<Env, uploaded_file>>

----------------------------------------------------------------------------
(* The user, between runs *)

PressClear ==
    /\ pc \in Ended
    /\ "clear_button" \in screen
    /\ RunStart("clear", ByUser)
    /\ UNCHANGED <<Env, Session>>

PressAnalyze ==
    /\ pc \in Ended
    /\ "analyze_button" \in screen
    /\ RunStart("analyze", ByUser)
    /\ UNCHANGED <<Env, Session>>

PressDownload ==
    /\ pc \in Ended
    /\ "download" \in screen
    /\ RunStart("download", ByUser)
    /\ UNCHANGED <<Env, Session>>

\* The uploader takes a file of an allowed type and refuses any other.
Upload ==
    /\ pc \in Ended
    /\ "uploader" \in screen
    /\ \E f \in Files :
          /\ Accepted(f)
          /\ f # uploaded_file
          /\ uploaded_file' = f
    /\ RunStart("none", ByUser)
    /\ UNCHANGED <<Env, analysis_result>>

RemoveFile ==
    /\ pc \in Ended
    /\ "uploader" \in screen
    /\ uploaded_file # NoFile
    /\ uploaded_file' = NoFile
    /\ RunStart("none", ByUser)
    /\ UNCHANGED <<Env, analysis_result>>

Next ==
    \/ configure_application
    \/ initialize_api_client
    \/ EncodeLogo
    \/ RenderTitle
    \/ RenderDownload
    \/ RenderClear
    \/ RenderReport
    \/ RenderSidebar
    \/ RenderPreview
    \/ RenderAnalyzeButton
    \/ ProcessImageData
    \/ ApiCall
    \/ StoreAndRerun
    \/ PressClear
    \/ PressAnalyze
    \/ PressDownload
    \/ Upload
    \/ RemoveFile

Spec == Init /\ [][Next]_vars

----------------------------------------------------------------------------
(* Properties *)

Falsy(v) == v.kind \in {"missing", "none"} \/ v.text = <<>>

PastClear == {"report", "sidebar", "preview", "analyze_button", "process_image",
              "api_call", "store", "done"}

\* C1: with GROQ_API_KEY absent or empty, the run shows the key error and
\* stops inside initialize_api_client: no client exists, nothing of the main
\* interface or the sidebar is emitted, and no API call is made.
C1_MissingKeyHalts ==
    api_key \in {"absent", "empty"} =>
        /\ ~client
        /\ calls = 0
        /\ pc \in {"configure", "init_client", "stopped"}
        /\ screen \subseteq {"key_error"}
        /\ (pc = "stopped" => "key_error" \in screen)

C1_Witness == pc = "stopped" /\ api_key = "empty" /\ screen = {"key_error"}

\* C2: Clear Analysis never ends in an error, whatever is held, and the render
\* that follows holds no report and shows neither the report nor the download
\* button.
C2_ClearNeverFails ==
    /\ error # "KeyError"
    /\ (origin.kind = "clear" /\ pc = "done" =>
           /\ Falsy(analysis_result)
           /\ screen \cap {"report", "download"} = {})

\* C3: whenever the download button is offered, the PDF was built from the
\* held text, the report panel shows that same text, and the PDF body is that
\* text unchanged; building the PDF never fails.
C3_PdfCarriesShownText ==
    /\ error # "ValueError"
    /\ ("download" \in screen =>
           /\ pdf_input = analysis_result
           /\ pdf_body.ok
           /\ pdf_body.body = pdf_input.text)
    /\ ("download" \in screen /\ "report" \in screen => shown_text = pdf_input)

\* C4: after an Initiate Analysis the held value is the outcome of that run:
\* the text the API returned, or None when the encoding or the call failed,
\* whatever was held before.
C4_HeldIsLatestOutcome ==
    origin.kind = "analysis" =>
        /\ analysis_result = origin.outcome
        /\ (origin.why = "ok" => analysis_result.kind = "text")
        /\ (origin.why # "ok" => analysis_result = None)

C4_Witness ==
    /\ pc = "done"
    /\ origin.kind = "analysis"
    /\ origin.why = "api_error"
    /\ analysis_result = None

\* C5: a call that raises is caught, the report is None, and the page that
\* results from that analysis shows the API communication error.
C5_ApiErrorSurfaced ==
    /\ (pc = "store" /\ "api_error" \in screen => report = None)
    /\ (origin.kind = "analysis" /\ origin.why = "api_error" =>
           /\ analysis_result = None
           /\ (pc \in Ended => "api_error" \in screen))

\* C6: the uploaded file always has an allowed extension, and the format in
\* the data URL sent to the API is always one of the allowed formats.
C6_OnlyAllowedFormatsSent ==
    /\ (uploaded_file # NoFile => uploaded_file.ext \in ALLOWED_FILE_TYPES)
    /\ sent_format \in ALLOWED_FILE_TYPES \cup {""}

\* C7: with the logo file missing, encode_logo yields the empty placeholder
\* and a message and raises nothing, and a render that reaches its end has
\* produced the title, the Clear button, the sidebar, and the report panel
\* when a report is held.
C7_MissingLogoIsPlaceholder ==
    logo_file = "missing" =>
        /\ error # "PermissionError"
        /\ (client /\ pc # "logo" => logo_b64 = "" /\ "logo_error" \in screen)
        /\ (pc = "done" =>
               /\ {"title", "clear_button", "sidebar", "uploader"} \subseteq screen
               /\ (~Falsy(analysis_result) => "report" \in screen))

C7_Witness ==
    /\ pc = "done"
    /\ logo_file = "missing"
    /\ logo_b64 = ""
    /\ {"logo_error", "title", "report", "sidebar"} \subseteq screen

\* C8: a run makes one call when Initiate Analysis was pressed and the image
\* was encoded, and none otherwise; a call that raised is not made again, and
\* the runs st.rerun() starts make none.
C8_OneCallPerAnalysis ==
    /\ calls <= 1
    /\ (pressed # "analyze" => calls = 0)
    /\ (origin.kind # "user" => calls = 0)
    /\ (pc = "store" =>
           calls = IF uploaded_file.content \in {"PNG", "JPEG", "GIF"} THEN 1 ELSE 0)

C8_Witness == pc = "store" /\ calls = 1 /\ "api_error" \in screen

\* C9: the run started by st.rerun() after an analysis that returned a text
\* ends as a completed render that shows that text and offers the download.
C9_ReturnedTextShown ==
    pc \in Ended /\ origin.kind = "analysis" /\ origin.why = "ok" =>
        /\ pc = "done"
        /\ {"report", "download"} \subseteq screen
        /\ shown_text = origin.outcome

\* C10: a completed render offers the download exactly when it shows the
\* report, and neither when the held value is missing, None or empty; a run in
\* which Clear Analysis was pressed never gets past the Clear button, so the
\* download button is never on a page whose report check found nothing.
C10_DownloadIffReport ==
    /\ (pc = "done" =>
           /\ ("download" \in screen <=> "report" \in screen)
           /\ (Falsy(analysis_result) => screen \cap {"download", "report"} = {}))
    /\ (pressed = "clear" => pc \notin PastClear)
    /\ ("download" \in screen /\ pc \in PastClear \ {"report"} => "report" \in screen)

C10_Witness == pc = "done" /\ {"download", "report"} \subseteq screen

====
